---- MODULE Spec2Model ----
(***************************************************************************)
(* Model of RPDtest.py, the Streamlit "Singapore Food Tech Scanner".       *)
(*                                                                         *)
(* The script main() is re-run from the top on every user action.  The     *)
(* state is st.session_state (six fields), the value the select box holds  *)
(* in the browser, and what the last run rendered.  One action stands for  *)
(* one user action together with the complete script run (and the          *)
(* st.rerun() it may trigger) that answers it.                             *)
(*                                                                         *)
(* Time is counted in hours; hour 0 is datetime.min, a calendar day is 24  *)
(* hours, and strftime('%Y-%m-%d') keeps the day number.                   *)
(***************************************************************************)
EXTENDS Integers, Sequences, FiniteSets, TLC

VARIABLES
    articles_by_domain,  \* st.session_state.articles_by_domain (ordered dict)
    articles_fetched,    \* st.session_state.articles_fetched
    article_summary,     \* st.session_state.article_summary
    date_range,          \* st.session_state.date_range
    current_domain,      \* st.session_state.current_domain
    current_page,        \* st.session_state.current_page
    selectbox,           \* the "Select Domain" widget: its options and chosen value
    view,                \* what the last script run rendered of the article pages
    top_articles,        \* text written under "Top 5 Articles" by the last run
    web,                 \* feed served by each URL during the last fetch pass
    clock,               \* datetime.now() read by the last fetch pass
    calls,               \* the collaborator calls the last script run made
    last_action          \* the user action the last script run answered

vars == <<articles_by_domain, articles_fetched, article_summary, date_range,
          current_domain, current_page, selectbox, view, top_articles, web,
          clock, calls, last_action>>

session == <<articles_by_domain, articles_fetched, article_summary, date_range,
             current_domain, current_page>>

(***************************************************************************)
(* Bounds of the model.                                                    *)
(***************************************************************************)
\* The Next button is not pressed once this page number is reached.
MaxPage == 3

(***************************************************************************)
(* Python values.                                                          *)
(***************************************************************************)
None == "None"

Min(a, b) == IF a <= b THEN a ELSE b
Max(a, b) == IF a >= b THEN a ELSE b

\* s[a:b] for 0 <= a, 0 <= b
PySlice(s, a, b) ==
    SubSeq(s, Min(a, Len(s)) + 1, Min(b, Len(s)))

\* mapping.get(key, default)
Get(mapping, key, default) ==
    IF key \in DOMAIN mapping THEN mapping[key] ELSE default

\* An insertion-ordered dict: its keys in insertion order and its items.
EmptyDict == [keys |-> <<>>, data |-> <<>>]

HasKey(d, k) == \E i \in 1..Len(d.keys) : d.keys[i] = k

\* d[k] = v
DictSet(d, k, v) ==
    [keys |-> IF HasKey(d, k) THEN d.keys ELSE Append(d.keys, k),
     data |-> [x \in {d.keys[i] : i \in 1..Len(d.keys)} \cup {k} |->
                  IF x = k THEN v ELSE d.data[x]]]

\* the value d[k] of a defaultdict whose missing keys read as `default`
DictValue(d, k, default) == IF HasKey(d, k) THEN d.data[k] ELSE default

\* the dict after evaluating d[k] on a defaultdict: a missing key is inserted
DictTouch(d, k, default) == IF HasKey(d, k) THEN d ELSE DictSet(d, k, default)

(***************************************************************************)
(* The source registration.                                                *)
(***************************************************************************)
rss_sources == <<
    <<"https://vegconomist.com/feed/", "Future Food">>,
    <<"https://www.just-food.com/feed/", "Future Food">>,
    <<"https://www.fooddive.com/feeds/news/", "Future Food">>,
    <<"https://www.sciencenews.org/feed", "Food Safety">>,
    <<"https://www.food-safety.com/rss/topic/296-news", "Food Safety">>,
    <<"https://phys.org/rss-feed/biology-news/agriculture/", "Agriculture">>,
    <<"https://www.agriculturedive.com/feeds/news/", "Agriculture">>,
    <<"https://feeds.thefishsite.com/thefishsite-all", "Aquaculture">>,
    <<"https://aquaculturemag.com/feed/", "Aquaculture">>,
    <<"https://www.globalagtechinitiative.com/digital-farming/", "Agriculture">>,
    <<"https://www.thecooldown.com/green-tech/", "Agriculture">>,
    <<"https://www.food-safety.com/keywords/1870-grants", "Food Safety">>,
    <<"https://agfundernews.com/category/agtech-2", "Agriculture">>,
    <<"https://www.newscientist.com/subject/environment/", "Agriculture">>,
    <<"https://hatcheryfm.com/fish/", "Aquaculture">>,
    <<"https://hatcheryfm.com/shrimp/", "Aquaculture">>,
    <<"https://interestingengineering.com/science", "Agriculture">> >>

Urls == {rss_sources[i][1] : i \in 1..Len(rss_sources)}
Domains == {rss_sources[i][2] : i \in 1..Len(rss_sources)}

(***************************************************************************)
(* The collaborators: html.unescape, BeautifulSoup.get_text and            *)
(* dateutil.parser.parse, each on the texts the modelled feeds carry.      *)
(***************************************************************************)
unescape(s) ==
    CASE s = "&lt;p&gt;Rice&lt;/p&gt;" -> "<p>Rice</p>"
      [] s = "Fish &amp; chips"        -> "Fish & chips"
      [] OTHER                         -> s

clean_html_content(html_content) ==
    CASE html_content = "<p>Rice</p>"            -> "Rice"
      [] html_content = "<p>Kelp</p><p>farm</p>" -> "Kelp\nfarm"
      [] html_content = "  Soy  "                -> "Soy"
      [] html_content = "<p> </p>"               -> ""
      [] OTHER                                   -> html_content

\* dateutil's reading of a date string: the wall-clock hour and the UTC
\* offset it carries; strings outside the table make parser.parse raise.
DateTable ==
    [s \in {"2023-12-01T00:00:00Z", "2024-01-05T00:00:00Z",
            "2024-01-04T22:00:00-05:00", "2024-01-06T03:00:00+08:00"} |->
        CASE s = "2023-12-01T00:00:00Z"      -> [wall |-> 24, off |-> 0]
          [] s = "2024-01-05T00:00:00Z"      -> [wall |-> 72, off |-> 0]
          [] s = "2024-01-04T22:00:00-05:00" -> [wall |-> 70, off |-> -5]
          [] s = "2024-01-06T03:00:00+08:00" -> [wall |-> 99, off |-> 8]]

\* parser.parse(s).replace(tzinfo=timezone.utc): the wall-clock reading is
\* kept and relabelled UTC.  The result is <<t>>, or NoDate for the None
\* returned when the parse raises.
NoDate == <<>>

parse_date(date_string) ==
    IF date_string \in DOMAIN DateTable
    THEN <<DateTable[date_string].wall>>
    ELSE NoDate

\* t.strftime('%Y-%m-%d')
strftime(t) == t \div 24

\* datetime.min.replace(tzinfo=timezone.utc)
datetime_min == 0

(***************************************************************************)
(* What feedparser.parse(url) can hand back.  An entry is a mapping that   *)
(* holds only the fields the feed supplied.                                *)
(***************************************************************************)
FeedIds == {"down", "html", "one", "pair", "three", "broken"}

Feed(id) ==
    CASE id = "down" ->   \* the retrieval raises
           [raises |-> TRUE, bozo |-> FALSE, entries |-> <<>>]
      [] id = "html" ->   \* not a feed: flagged malformed, nothing recovered
           [raises |-> FALSE, bozo |-> TRUE, entries |-> <<>>]
      [] id = "one" ->
           [raises |-> FALSE, bozo |-> FALSE, entries |-> <<
              [title |-> "Soy protein", summary |-> "  Soy  ",
               link |-> "http://x/soy",
               published |-> "2024-01-06T03:00:00+08:00"] >>]
      [] id = "pair" ->   \* flagged malformed, two entries recovered
           [raises |-> FALSE, bozo |-> TRUE, entries |-> <<
              [title |-> "Fish feed", content |-> <<[type |-> "text/html"]>>,
               summary |-> "Fish &amp; chips", link |-> "http://x/fish",
               published |-> "2024-01-04T22:00:00-05:00"],
              [title |-> "Undated", content |-> <<[value |-> "<p> </p>"]>>,
               summary |-> "unused", link |-> "http://x/undated"] >>]
      [] id = "three" ->
           [raises |-> FALSE, bozo |-> FALSE, entries |-> <<
              [title |-> "Rice yields",
               content |-> <<[value |-> "&lt;p&gt;Rice&lt;/p&gt;"]>>,
               summary |-> "Rice summary", link |-> "http://x/rice",
               published |-> "2024-01-05T00:00:00Z"],
              [title |-> "No body", content |-> <<[value |-> ""]>>,
               link |-> "http://x/nobody", published |-> "not-a-date"],
              [summary |-> "", description |-> "<p>Kelp</p><p>farm</p>",
               published |-> "2023-12-01T00:00:00Z"] >>]
      [] id = "broken" -> \* the second entry's content list is empty
           [raises |-> FALSE, bozo |-> FALSE, entries |-> <<
              [title |-> "Shrimp", summary |-> "Shrimp pond",
               link |-> "http://x/shrimp",
               published |-> "2024-01-05T00:00:00Z"],
              [title |-> "Empty block", content |-> <<>>,
               summary |-> "Block summary", link |-> "http://x/block",
               published |-> "2024-01-05T00:00:00Z"] >>]

(***************************************************************************)
(* parse_feed: the body of the loop over feed.entries, then the function.  *)
(***************************************************************************)
\* entry.get('content', [{}])[0] raises IndexError on an empty list
EntryRaises(entry) == Get(entry, "content", <<[x \in {} |-> ""]>>) = <<>>

EntryContent(entry) ==
    LET first == Get(entry, "content", <<[x \in {} |-> ""]>>)[1]
        content == Get(first, "value", "")
        chosen == IF content # ""
                  THEN content
                  ELSE IF Get(entry, "summary", "") # ""
                       THEN Get(entry, "summary", "")
                       ELSE Get(entry, "description", "")
    IN  clean_html_content(unescape(chosen))

\* EntryArticle with the two caller-supplied values in each other's field
EntryArticle_SwapsLabels(entry, url, domain) ==
    [title      |-> Get(entry, "title", ""),
     content    |-> EntryContent(entry),
     link       |-> Get(entry, "link", ""),
     date       |-> Get(entry, "published", ""),
     domain     |-> url,
     source_url |-> domain]

EntryArticle(entry, url, domain) ==
    [title      |-> Get(entry, "title", ""),
     content    |-> EntryContent(entry),
     link       |-> Get(entry, "link", ""),
     date       |-> Get(entry, "published", ""),
     domain     |-> domain,
     source_url |-> url]

\* parse_feed whose handler returns the articles collected before the failure
parse_feed_KeepsPartial(url, domain, feed) ==
    IF feed.raises
    THEN <<>>
    ELSE LET bad == {i \in 1..Len(feed.entries) : EntryRaises(feed.entries[i])}
             good == IF bad = {}
                     THEN Len(feed.entries)
                     ELSE (CHOOSE i \in bad : \A j \in bad : i <= j) - 1
         IN  [i \in 1..good |-> EntryArticle(feed.entries[i], url, domain)]

parse_feed(url, domain, feed) ==
    IF feed.raises \/ \E i \in 1..Len(feed.entries) : EntryRaises(feed.entries[i])
    THEN <<>>
    ELSE [i \in 1..Len(feed.entries) |-> EntryArticle(feed.entries[i], url, domain)]

(***************************************************************************)
(* The fetch pass of main(): lines 135-150.                                *)
(***************************************************************************)
\* for article in articles: ... (the date-range update of one source)
RECURSIVE UpdateDateRange(_, _, _)
UpdateDateRange(articles, k, range) ==
    IF k > Len(articles)
    THEN range
    ELSE LET pub_date == parse_date(articles[k].date)
         IN  UpdateDateRange(articles, k + 1,
                IF pub_date # NoDate
                THEN [earliest |-> Min(range.earliest, pub_date[1]),
                      latest   |-> Max(range.latest, pub_date[1])]
                ELSE range)

\* FetchSource that puts a source's articles in front of the domain's list
FetchSource_Prepends(acc, sources, i, feeds) ==
    LET url == sources[i][1]
        domain == sources[i][2]
        articles == parse_feed(url, domain, Feed(feeds[url]))
        range == UpdateDateRange(articles, 1,
                    [earliest |-> acc.earliest_date, latest |-> acc.latest_date])
    IN  [articles_by_domain |->
            DictSet(acc.articles_by_domain, domain,
                    articles \o DictValue(acc.articles_by_domain, domain, <<>>)),
         article_counts |->
            DictSet(acc.article_counts, domain,
                    DictValue(acc.article_counts, domain, 0) + Len(articles)),
         earliest_date |-> range.earliest,
         latest_date |-> range.latest,
         parse_feed_calls |->
            [acc.parse_feed_calls EXCEPT ![url] = @ + 1]]

\* FetchSource that calls parse_feed a second time when a source gave nothing
FetchSource_RetriesFailure(acc, sources, i, feeds) ==
    LET url == sources[i][1]
        domain == sources[i][2]
        articles == parse_feed(url, domain, Feed(feeds[url]))
        range == UpdateDateRange(articles, 1,
                    [earliest |-> acc.earliest_date, latest |-> acc.latest_date])
    IN  [articles_by_domain |->
            DictSet(acc.articles_by_domain, domain,
                    DictValue(acc.articles_by_domain, domain, <<>>) \o articles),
         article_counts |->
            DictSet(acc.article_counts, domain,
                    DictValue(acc.article_counts, domain, 0) + Len(articles)),
         earliest_date |-> range.earliest,
         latest_date |-> range.latest,
         parse_feed_calls |->
            [acc.parse_feed_calls EXCEPT
                ![url] = @ + (IF articles = <<>> THEN 2 ELSE 1)]]

\* FetchSource that assigns a source's count instead of adding it
FetchSource_OverwritesCount(acc, sources, i, feeds) ==
    LET url == sources[i][1]
        domain == sources[i][2]
        articles == parse_feed(url, domain, Feed(feeds[url]))
        range == UpdateDateRange(articles, 1,
                    [earliest |-> acc.earliest_date, latest |-> acc.latest_date])
    IN  [articles_by_domain |->
            DictSet(acc.articles_by_domain, domain,
                    DictValue(acc.articles_by_domain, domain, <<>>) \o articles),
         article_counts |->
            DictSet(acc.article_counts, domain, Len(articles)),
         earliest_date |-> range.earliest,
         latest_date |-> range.latest,
         parse_feed_calls |->
            [acc.parse_feed_calls EXCEPT ![url] = @ + 1]]

\* one turn of `for url, domain in rss_sources`, on the i-th of `sources`
FetchSource(acc, sources, i, feeds) ==
    LET url == sources[i][1]
        domain == sources[i][2]
        articles == parse_feed(url, domain, Feed(feeds[url]))
        range == UpdateDateRange(articles, 1,
                    [earliest |-> acc.earliest_date, latest |-> acc.latest_date])
    IN  [articles_by_domain |->
            DictSet(acc.articles_by_domain, domain,
                    DictValue(acc.articles_by_domain, domain, <<>>) \o articles),
         article_counts |->
            DictSet(acc.article_counts, domain,
                    DictValue(acc.article_counts, domain, 0) + Len(articles)),
         earliest_date |-> range.earliest,
         latest_date |-> range.latest,
         parse_feed_calls |->
            [acc.parse_feed_calls EXCEPT ![url] = @ + 1]]

RECURSIVE FetchLoop(_, _, _, _)
FetchLoop(acc, sources, i, feeds) ==
    IF i > Len(sources)
    THEN acc
    ELSE FetchLoop(FetchSource(acc, sources, i, feeds), sources, i + 1, feeds)

\* lines 135-150 run over the registration `sources`
FetchPassOver(sources, feeds, now) ==
    FetchLoop([articles_by_domain |-> EmptyDict,
               article_counts |-> EmptyDict,
               earliest_date |-> now,
               latest_date |-> datetime_min,
               parse_feed_calls |-> [u \in Urls |-> 0]], sources, 1, feeds)

FetchPass(feeds, now) == FetchPassOver(rss_sources, feeds, now)

(***************************************************************************)
(* The summary and the date-range strings: lines 156-161.  A string is     *)
(* kept as the values formatted into it; <<>> is the empty string.         *)
(***************************************************************************)
Emoji(domain) ==
    CASE domain = "Agriculture" -> "wheat"
      [] domain = "Aquaculture" -> "fish"
      [] domain = "Future Food" -> "plate"
      [] domain = "Food Safety" -> "test tube"
      [] OTHER                  -> "newspaper"

RECURSIVE SumCounts(_, _)
SumCounts(counts, k) ==
    IF k > Len(counts.keys)
    THEN 0
    ELSE counts.data[counts.keys[k]] + SumCounts(counts, k + 1)

Summary(article_counts) ==
    <<<<"Fetched", "total", SumCounts(article_counts, 1)>>>> \o
    [k \in 1..Len(article_counts.keys) |->
        <<Emoji(article_counts.keys[k]), article_counts.keys[k],
          article_counts.data[article_counts.keys[k]]>>]

DateRangeText(earliest_date, latest_date) ==
    <<strftime(earliest_date), strftime(latest_date)>>

(***************************************************************************)
(* The article browser: lines 175-206.                                     *)
(***************************************************************************)
articles_per_page == 10

\* total_pages = (len(articles) - 1) // articles_per_page + 1
TotalPages(articles) == (Len(articles) - 1) \div articles_per_page + 1

\* PageSlice with the slice ending one item early
PageSlice_ShortEnd(articles, page) ==
    LET start_idx == (page - 1) * articles_per_page
        end_idx == start_idx + articles_per_page - 1
    IN  PySlice(articles, start_idx, end_idx)

\* articles[start_idx:end_idx]
PageSlice(articles, page) ==
    LET start_idx == (page - 1) * articles_per_page
        end_idx == start_idx + articles_per_page
    IN  PySlice(articles, start_idx, end_idx)

PrevDisabled(page) == page = 1

NextDisabled(page, total_pages) == page = total_pages

\* SelectboxValue that answers the value held so far even for a new widget
SelectboxValue_KeepsValue(widget, options) == widget.value

\* What st.selectbox returns: the browser's value while the widget is the
\* same one (same options), else the first option.
SelectboxValue(widget, options) ==
    IF widget.options = options /\ options # <<>>
    THEN widget.value
    ELSE IF options = <<>> THEN None ELSE options[1]

NotRendered ==
    [rendered |-> FALSE, total_pages |-> 0, start_idx |-> 0, shown |-> <<>>,
     prev_disabled |-> TRUE, next_disabled |-> TRUE]

\* The block under `if st.session_state.articles_fetched`, down to the
\* page buttons, run with the collection abd, page number `page` and the
\* select box answering `chosen`.
Render(abd, page, chosen) ==
    LET articles == DictValue(abd, chosen, <<>>)
        total_pages == TotalPages(articles)
    IN  /\ current_domain' = chosen
        /\ articles_by_domain' = DictTouch(abd, chosen, <<>>)
        /\ selectbox' = [options |-> abd.keys, value |-> chosen]
        /\ view' = [rendered |-> TRUE,
                    total_pages |-> total_pages,
                    start_idx |-> (page - 1) * articles_per_page,
                    shown |-> PageSlice(articles, page),
                    prev_disabled |-> PrevDisabled(page),
                    next_disabled |-> NextDisabled(page, total_pages)]

(***************************************************************************)
(* get_top_articles: lines 62-77.  The completion service answers, raises  *)
(* a transport error, or answers with no choice in the response.           *)
(***************************************************************************)
Outcomes == {"answers", "raises", "malformed"}

\* str(e) of the exception the try block meets
ExceptionText(outcome) ==
    IF outcome = "raises" THEN "transport failure" ELSE "list index out of range"

\* the requests client.chat.completions.create is called with, each with
\* what the service did: the try block calls it once
CompletionRequests(outcome) == <<outcome>>

\* get_top_articles whose handler returns the bare exception text
get_top_articles_BareMessage(abd, outcome) ==
    IF outcome = "answers"
    THEN "completion text"
    ELSE ExceptionText(outcome)

get_top_articles(abd, outcome) ==
    IF outcome = "answers"
    THEN "completion text"
    ELSE "An error occurred: " \o ExceptionText(outcome)

\* a script run that calls neither parse_feed nor the completion service
NoCalls == [parse_feed |-> [u \in Urls |-> 0], completions |-> <<>>]

(***************************************************************************)
(* The feeds a fetch pass may meet: every source serves a base feed,       *)
(* except the sources of one override set, which serve another.            *)
(***************************************************************************)
SourcesOf(domain) ==
    {rss_sources[i][1] : i \in {j \in 1..Len(rss_sources) : rss_sources[j][2] = domain}}

BaseFeeds == {"three", "html"}

Overrides ==
    {SourcesOf("Agriculture"), SourcesOf("Future Food"),
     {rss_sources[2][1]}, {rss_sources[10][1]}}

Worlds ==
    {[u \in Urls |-> IF u \in S THEN g ELSE b] :
        b \in BaseFeeds, g \in FeedIds, S \in Overrides}

\* The hours datetime.now() may show: 21:00 UTC of 2024-01-05 (day 3) and
\* the start of day 5.
Nows == {93, 120}

\* The fetch pass of every choice of feeds and clock, computed once.
FetchPasses ==
    [choice \in Worlds \X Nows |-> FetchPass(choice[1], choice[2])] @@ <<>>

(***************************************************************************)
(* The state machine.                                                      *)
(***************************************************************************)
Init ==
    /\ articles_by_domain = EmptyDict
    /\ articles_fetched = FALSE
    /\ article_summary = <<>>
    /\ date_range = <<>>
    /\ current_domain = "Agriculture"
    /\ current_page = 1
    /\ selectbox = [options |-> <<>>, value |-> None]
    /\ view = NotRendered
    /\ top_articles = None
    /\ web = [u \in Urls |-> "unread"]
    /\ clock = 0
    /\ calls = NoCalls
    /\ last_action = "start"

\* Fetch that extends the collection already in the session instead of
\* starting from an empty one
Fetch_Merges(feeds, now) ==
    LET pass == FetchPasses[<<feeds, now>>]
        fresh == pass.articles_by_domain
        merged == [keys |-> fresh.keys,
                   data |-> [d \in DOMAIN fresh.data |->
                               DictValue(articles_by_domain, d, <<>>) \o fresh.data[d]]]
    IN  /\ articles_fetched' = TRUE
        /\ article_summary' = Summary(pass.article_counts)
        /\ date_range' = DateRangeText(pass.earliest_date, pass.latest_date)
        /\ current_page' = current_page
        /\ Render(merged, current_page, SelectboxValue(selectbox, merged.keys))
        /\ top_articles' = None
        /\ web' = feeds
        /\ clock' = now
        /\ calls' = [parse_feed |-> pass.parse_feed_calls, completions |-> <<>>]
        /\ last_action' = "fetch"

\* "Fetch Articles" pressed: the fetch pass, then the browser is rendered.
Fetch(feeds, now) ==
    LET pass == FetchPasses[<<feeds, now>>]
    IN  /\ articles_fetched' = TRUE
        /\ article_summary' = Summary(pass.article_counts)
        /\ date_range' = DateRangeText(pass.earliest_date, pass.latest_date)
        /\ current_page' = current_page
        /\ Render(pass.articles_by_domain, current_page,
                  SelectboxValue(selectbox, pass.articles_by_domain.keys))
        /\ top_articles' = None
        /\ web' = feeds
        /\ clock' = now
        /\ calls' = [parse_feed |-> pass.parse_feed_calls, completions |-> <<>>]
        /\ last_action' = "fetch"

\* Another option of "Select Domain" chosen.
ChangeDomain(domain) ==
    /\ view.rendered
    /\ \E k \in 1..Len(selectbox.options) : selectbox.options[k] = domain
    /\ domain # selectbox.value
    /\ Render(articles_by_domain, current_page, domain)
    /\ top_articles' = None
    /\ calls' = NoCalls
    /\ last_action' = "change-domain"
    /\ UNCHANGED <<articles_fetched, article_summary, date_range, current_page,
                   web, clock>>

\* "Previous" pressed: the run reaches the button, steps the page back and
\* st.rerun() renders again.
Previous ==
    /\ view.rendered
    /\ ~view.prev_disabled
    /\ current_page' = current_page - 1
    /\ Render(articles_by_domain, current_page - 1,
              SelectboxValue(selectbox, articles_by_domain.keys))
    /\ top_articles' = None
    /\ calls' = NoCalls
    /\ last_action' = "previous"
    /\ UNCHANGED <<articles_fetched, article_summary, date_range, web, clock>>

\* "Next" pressed.
NextPage ==
    /\ view.rendered
    /\ ~view.next_disabled
    /\ current_page < MaxPage
    /\ current_page' = current_page + 1
    /\ Render(articles_by_domain, current_page + 1,
              SelectboxValue(selectbox, articles_by_domain.keys))
    /\ top_articles' = None
    /\ calls' = NoCalls
    /\ last_action' = "next"
    /\ UNCHANGED <<articles_fetched, article_summary, date_range, web, clock>>

\* "Get Top Articles" pressed.
RequestCuration(outcome) ==
    /\ view.rendered
    /\ Render(articles_by_domain, current_page,
              SelectboxValue(selectbox, articles_by_domain.keys))
    /\ top_articles' = get_top_articles(articles_by_domain', outcome)
    /\ calls' = [parse_feed |-> NoCalls.parse_feed,
                 completions |-> CompletionRequests(outcome)]
    /\ last_action' = "request-curation"
    /\ UNCHANGED <<articles_fetched, article_summary, date_range, current_page,
                   web, clock>>

Next ==
    \/ \E feeds \in Worlds, now \in Nows : Fetch(feeds, now)
    \/ \E domain \in Domains : ChangeDomain(domain)
    \/ Previous
    \/ NextPage
    \/ \E outcome \in Outcomes : RequestCuration(outcome)

Spec == Init /\ [][Next]_vars

(***************************************************************************)
(* Notions the properties are stated with.                                 *)
(***************************************************************************)
\* max(1, ceil(n / articles_per_page))
CeilPages(n) ==
    IF n = 0 THEN 1 ELSE (n + articles_per_page - 1) \div articles_per_page

\* ceil(n / articles_per_page)
Ceil(n) == (n + articles_per_page - 1) \div articles_per_page

\* the article sequence of the selected domain
CurrentArticles == DictValue(articles_by_domain, current_domain, <<>>)

RECURSIVE ConcatPages(_, _, _)
ConcatPages(articles, p, last) ==
    IF p > last
    THEN <<>>
    ELSE PageSlice(articles, p) \o ConcatPages(articles, p + 1, last)

RECURSIVE SumPageLengths(_, _, _)
SumPageLengths(articles, p, last) ==
    IF p > last
    THEN 0
    ELSE Len(PageSlice(articles, p)) + SumPageLengths(articles, p + 1, last)

(***************************************************************************)
(* C1: once a fetch has completed, whenever the page slice is computed the *)
(* current page number lies between 1 and the number of pages of the       *)
(* selected domain's article sequence.                                     *)
(***************************************************************************)
C1_PageWithinRange ==
    view.rendered =>
        /\ 1 <= current_page
        /\ current_page <= CeilPages(Len(CurrentArticles))

(***************************************************************************)
(* C2: when a fetch action completes, the current page number is 1.        *)
(***************************************************************************)
C2_FetchResetsPage ==
    last_action = "fetch" => current_page = 1

(***************************************************************************)
(* C3: when the selected domain changes to another domain, the current     *)
(* page number is 1 afterwards.                                            *)
(***************************************************************************)
C3_DomainChangeResetsPage ==
    last_action = "change-domain" => current_page = 1

(***************************************************************************)
(* C4: the total page count the browser computes for a sequence of N       *)
(* articles is max(1, ceil(N / 10)); an empty sequence shows an empty      *)
(* slice and one page.                                                     *)
(***************************************************************************)
C4_TotalPages ==
    view.rendered =>
        /\ view.total_pages = CeilPages(Len(CurrentArticles))
        /\ CurrentArticles = <<>> =>
               view.shown = <<>> /\ view.total_pages = 1

(***************************************************************************)
(* C5: for every stored article sequence of length N, the page slices      *)
(* 1..ceil(N / 10) laid end to end are the sequence itself (so they are    *)
(* disjoint and in order), their lengths sum to N, every page but the last *)
(* has exactly 10 items and the last has between 1 and 10.                 *)
(***************************************************************************)
PagesPartition(articles) ==
    LET n == Ceil(Len(articles))
    IN  /\ ConcatPages(articles, 1, n) = articles
        /\ SumPageLengths(articles, 1, n) = Len(articles)
        /\ \A p \in 1..(n - 1) : Len(PageSlice(articles, p)) = articles_per_page
        /\ n >= 1 => /\ Len(PageSlice(articles, n)) >= 1
                     /\ Len(PageSlice(articles, n)) <= articles_per_page

C5_PagesPartition ==
    /\ \A k \in 1..Len(articles_by_domain.keys) :
          PagesPartition(articles_by_domain.data[articles_by_domain.keys[k]])
    /\ view.rendered /\ current_page <= Ceil(Len(CurrentArticles)) =>
          view.shown = PageSlice(CurrentArticles, current_page)

\* the third, partial page of a 21-article sequence is on display
C5_Witness ==
    /\ view.rendered
    /\ Len(CurrentArticles) = 21
    /\ current_page = 3
    /\ Len(view.shown) = 1


(***************************************************************************)
(* Notions about the last fetch pass.                                      *)
(***************************************************************************)
\* the stored article sequence of a domain (empty when the key is absent)
Stored(domain) == DictValue(articles_by_domain, domain, <<>>)

\* the stored records that came from one source, in stored order
StoredFrom(url, domain) ==
    LET FromUrl(article) == article.source_url = url
    IN  SelectSeq(Stored(domain), FromUrl)

\* the source's retrieval failed in the last pass: the feed library raised,
\* an entry made the loop raise, or the feed was malformed with no entries
Failing(url) ==
    LET feed == Feed(web[url])
    IN  \/ feed.raises
        \/ \E i \in 1..Len(feed.entries) : EntryRaises(feed.entries[i])
        \/ feed.bozo /\ feed.entries = <<>>

\* the registration without the failing sources
WithoutFailing ==
    LET Works(source) == ~Failing(source[1])
    IN  SelectSeq(rss_sources, Works)

\* the records returned for the sources of a domain, source after source
RECURSIVE ConcatSources(_, _, _)
ConcatSources(domain, i, feeds) ==
    IF i > Len(rss_sources)
    THEN <<>>
    ELSE (IF rss_sources[i][2] = domain
          THEN parse_feed(rss_sources[i][1], domain, Feed(feeds[rss_sources[i][1]]))
          ELSE <<>>) \o ConcatSources(domain, i + 1, feeds)

\* the timestamps parse_date gives for the stored records whose date parses
ParsedTimes ==
    UNION {{parse_date(Stored(d)[k].date)[1] :
               k \in {j \in 1..Len(Stored(d)) : parse_date(Stored(d)[j].date) # NoDate}} :
           d \in Domains}

SetMin(S) == CHOOSE x \in S : \A y \in S : x <= y
SetMax(S) == CHOOSE x \in S : \A y \in S : x >= y

(***************************************************************************)
(* C6: whichever sources fail in a fetch pass, every other source is still *)
(* processed, and the records stored per domain are those of a pass over   *)
(* the registration with the failing sources removed.                      *)
(***************************************************************************)
C6_FailureIsolation ==
    articles_fetched =>
        LET kept == WithoutFailing
            pass == FetchPassOver(kept, web, clock)
        IN  /\ \A d \in Domains :
                  Stored(d) = DictValue(pass.articles_by_domain, d, <<>>)
            /\ \A i \in 1..Len(kept) :
                  StoredFrom(kept[i][1], kept[i][2]) =
                      parse_feed(kept[i][1], kept[i][2], Feed(web[kept[i][1]]))

\* a pass in which an Agriculture source fails between working ones
C6_Witness ==
    /\ last_action = "fetch"
    /\ \E u \in SourcesOf("Agriculture") : web[u] = "broken"
    /\ \E u \in SourcesOf("Agriculture") : web[u] = "three"
    /\ Len(Stored("Agriculture")) = 18

(***************************************************************************)
(* C7: a feed whose retrieval does not raise yields exactly one record per *)
(* entry, in entry order, with title, link and date copied from the entry  *)
(* (empty when absent); no entry makes its feed's entries disappear.       *)
(***************************************************************************)
C7_OneRecordPerEntry ==
    articles_fetched =>
        \A i \in 1..Len(rss_sources) :
            LET url == rss_sources[i][1]
                feed == Feed(web[url])
                records == StoredFrom(url, rss_sources[i][2])
            IN  ~feed.raises =>
                  /\ Len(records) = Len(feed.entries)
                  /\ \A k \in 1..Len(feed.entries) :
                        /\ records[k].title = Get(feed.entries[k], "title", "")
                        /\ records[k].link = Get(feed.entries[k], "link", "")
                        /\ records[k].date = Get(feed.entries[k], "published", "")

(***************************************************************************)
(* C8: after a fetch, each domain's stored sequence is the concatenation,  *)
(* in registration order, of the records returned for that domain's        *)
(* sources, each in feed-entry order, and it stays so under every later    *)
(* action.                                                                 *)
(***************************************************************************)
C8_RetrievalOrder ==
    articles_fetched =>
        \A d \in Domains : Stored(d) = ConcatSources(d, 1, web)

\* page 2 of Agriculture, whose sources returned different feeds
C8_Witness ==
    /\ last_action = "next"
    /\ current_domain = "Agriculture"
    /\ web[rss_sources[10][1]] = "one"
    /\ web[rss_sources[6][1]] = "three"
    /\ Len(Stored("Agriculture")) = 19

(***************************************************************************)
(* C9: after a fetch in which some stored record's date parses, the        *)
(* reported earliest and latest dates are the minimum and the maximum of   *)
(* the parsed timestamps of the records whose date parses.                 *)
(***************************************************************************)
C9_RangeOverParsedDates ==
    articles_fetched /\ ParsedTimes # {} =>
        date_range = <<strftime(SetMin(ParsedTimes)), strftime(SetMax(ParsedTimes))>>

(***************************************************************************)
(* C10: the stored date range never shows an earliest date later than the  *)
(* latest date.                                                            *)
(***************************************************************************)
C10_NoInvertedRange ==
    date_range # <<>> => date_range[1] <= date_range[2]

(***************************************************************************)
(* C11: timestamps are brought to the same instant in UTC before they are  *)
(* compared: two stored dates are ordered by their true instant (wall      *)
(* clock minus offset), and the reported latest date is the day of the     *)
(* latest instant.                                                         *)
(***************************************************************************)
\* the UTC instant a parseable date string denotes
Instant(date_string) ==
    DateTable[date_string].wall - DateTable[date_string].off

\* the raw dates of the stored records whose date parses
ParsedDates ==
    UNION {{Stored(d)[k].date :
               k \in {j \in 1..Len(Stored(d)) : parse_date(Stored(d)[j].date) # NoDate}} :
           d \in Domains}

C11_UtcNormalised ==
    articles_fetched /\ ParsedDates # {} =>
        /\ \A a, b \in ParsedDates :
              parse_date(a)[1] <= parse_date(b)[1] <=> Instant(a) <= Instant(b)
        /\ date_range[2] = strftime(SetMax({Instant(a) : a \in ParsedDates}))

(***************************************************************************)
(* C12: a request-curation action hands its caller a string; when the      *)
(* completion service failed, the string begins with "An error occurred:"; *)
(* and the six session-state fields are the same after the action as       *)
(* before it.                                                              *)
(***************************************************************************)
BeginsWithError(text) ==
    \E outcome \in Outcomes \ {"answers"} :
        text = "An error occurred:" \o " " \o ExceptionText(outcome)

C12_CurationNeverRaises ==
    [][last_action' = "request-curation" =>
          /\ session' = session
          /\ top_articles' # None
          /\ calls'.completions[1] # "answers" => BeginsWithError(top_articles')
      ]_vars

\* the service raised while page 2 of a fetched collection was on display
C12_Witness ==
    /\ last_action = "request-curation"
    /\ calls.completions = <<"raises">>
    /\ top_articles = "An error occurred: transport failure"
    /\ current_page = 2
    /\ Len(CurrentArticles) > articles_per_page

(***************************************************************************)
(* C13: a fetch action calls parse_feed exactly once for every registered  *)
(* source and dispatches no completion request; a request-curation action  *)
(* dispatches exactly one completion request and calls parse_feed for no   *)
(* source; every other action calls neither, so a failed source or         *)
(* completion is attempted again only by a new fetch or curation action.   *)
(***************************************************************************)
C13_NoRetries ==
    /\ last_action = "fetch" =>
          /\ \A i \in 1..Len(rss_sources) : calls.parse_feed[rss_sources[i][1]] = 1
          /\ calls.completions = <<>>
    /\ last_action = "request-curation" =>
          /\ Len(calls.completions) = 1
          /\ \A u \in Urls : calls.parse_feed[u] = 0
    /\ last_action \notin {"fetch", "request-curation"} => calls = NoCalls

\* a fetch pass in which a source raised and another returned nothing
C13_Witness ==
    /\ last_action = "fetch"
    /\ \E u \in Urls : web[u] = "down" /\ calls.parse_feed[u] = 1
    /\ \E u \in Urls : web[u] = "html" /\ calls.parse_feed[u] = 1

(***************************************************************************)
(* C14: after any sequence of fetches the stored collection and summary    *)
(* are those of the most recent fetch pass alone: the collection is that   *)
(* pass's collection, it holds as many records as that pass's sources      *)
(* returned, and the summary shows that pass's counts.                     *)
(***************************************************************************)
RECURSIVE ReturnedRecords(_, _)
ReturnedRecords(i, feeds) ==
    IF i > Len(rss_sources)
    THEN 0
    ELSE Len(parse_feed(rss_sources[i][1], rss_sources[i][2],
                        Feed(feeds[rss_sources[i][1]])))
         + ReturnedRecords(i + 1, feeds)

RECURSIVE StoredRecords(_)
StoredRecords(k) ==
    IF k > Len(articles_by_domain.keys)
    THEN 0
    ELSE Len(articles_by_domain.data[articles_by_domain.keys[k]]) + StoredRecords(k + 1)

C14_FetchReplaces ==
    articles_fetched =>
        LET pass == FetchPasses[<<web, clock>>]
        IN  /\ articles_by_domain = pass.articles_by_domain
            /\ StoredRecords(1) = ReturnedRecords(1, web)
            /\ article_summary = Summary(pass.article_counts)

\* a fetch that returned one record, made while page 2 was on display,
\* hence after an earlier fetch
C14_Witness ==
    /\ last_action = "fetch"
    /\ current_page = 2
    /\ StoredRecords(1) = 1

(***************************************************************************)
(* C15: every key of the stored collection is a domain label of the source *)
(* registration, in every state and so after every action, domain          *)
(* selection and page viewing included; a registered domain with no        *)
(* article is absent or mapped to the empty sequence.                      *)
(***************************************************************************)
C15_OnlyRegisteredDomains ==
    /\ \A k \in 1..Len(articles_by_domain.keys) :
          articles_by_domain.keys[k] \in Domains
    /\ DOMAIN articles_by_domain.data \subseteq Domains

\* a domain without articles has just been selected and is viewed
C15_Witness ==
    /\ last_action = "change-domain"
    /\ HasKey(articles_by_domain, current_domain)
    /\ Stored(current_domain) = <<>>
    /\ \E d \in Domains : Stored(d) # <<>>

(***************************************************************************)
(* C16: every stored record carries the domain label and the feed URL of   *)
(* the registration pair it was retrieved under, both non-empty, whatever  *)
(* the entry holds; a record stored under domain key d has domain d.       *)
(***************************************************************************)
\* the record was made from an entry the feed of `url` served in the last pass
RetrievedFrom(record, url) ==
    LET entries == Feed(web[url]).entries
    IN  \E e \in 1..Len(entries) :
            /\ record.title = Get(entries[e], "title", "")
            /\ record.link = Get(entries[e], "link", "")
            /\ record.date = Get(entries[e], "published", "")

C16_CallerSuppliedLabels ==
    \A k \in 1..Len(articles_by_domain.keys) :
        LET d == articles_by_domain.keys[k]
        IN  \A j \in 1..Len(articles_by_domain.data[d]) :
                LET record == articles_by_domain.data[d][j]
                IN  /\ record.domain = d
                    /\ record.domain # ""
                    /\ record.source_url # ""
                    /\ \E i \in 1..Len(rss_sources) :
                          /\ rss_sources[i] = <<record.source_url, record.domain>>
                          /\ RetrievedFrom(record, rss_sources[i][1])

\* a stored record whose entry supplied neither title nor link
C16_Witness ==
    /\ articles_fetched
    /\ \E j \in 1..Len(CurrentArticles) :
          /\ CurrentArticles[j].title = ""
          /\ CurrentArticles[j].link = ""
          /\ CurrentArticles[j].domain = current_domain

(***************************************************************************)
(* C17: for every entry of a feed whose retrieval does not raise, the      *)
(* content of its record is made from the first non-empty of the entry's   *)
(* content block, summary and description, and from the empty string only  *)
(* when all three are empty or absent.                                     *)
(***************************************************************************)
\* the value of the entry's content block, "" when there is none
ContentBlock(entry) ==
    IF "content" \in DOMAIN entry /\ entry.content # <<>>
    THEN Get(entry.content[1], "value", "")
    ELSE ""

FirstNonEmpty(entry) ==
    LET candidates == <<ContentBlock(entry), Get(entry, "summary", ""),
                        Get(entry, "description", "")>>
        filled == {c \in 1..3 : candidates[c] # ""}
    IN  IF filled = {} THEN "" ELSE candidates[SetMin(filled)]

C17_ContentPriority ==
    articles_fetched =>
        \A i \in 1..Len(rss_sources) :
            LET url == rss_sources[i][1]
                feed == Feed(web[url])
                records == StoredFrom(url, rss_sources[i][2])
            IN  ~feed.raises =>
                  \A k \in 1..Len(feed.entries) :
                      /\ k <= Len(records)
                      /\ records[k].content =
                            clean_html_content(unescape(FirstNonEmpty(feed.entries[k])))

\* the same over the entries that have a record: the records present
\* do follow the priority order
C17_StoredContentPriority ==
    articles_fetched =>
        \A i \in 1..Len(rss_sources) :
            LET url == rss_sources[i][1]
                feed == Feed(web[url])
                records == StoredFrom(url, rss_sources[i][2])
            IN  \A k \in 1..Len(records) :
                    records[k].content =
                        clean_html_content(unescape(FirstNonEmpty(feed.entries[k])))

(***************************************************************************)
(* C18: Previous is disabled exactly on page 1; Next is disabled exactly   *)
(* on the last page of the selected domain and on every page beyond it.    *)
(***************************************************************************)
C18_ButtonsDisabled ==
    view.rendered =>
        /\ view.prev_disabled <=> current_page = 1
        /\ view.next_disabled <=> current_page >= CeilPages(Len(CurrentArticles))

\* the rest of C18: a press of Previous lowers the page by exactly 1, a
\* press of Next raises it by exactly 1, and either leaves the collection,
\* the fetched flag, the summary, the date range and the selected domain
\* as they were
C18_PressEffects ==
    [][/\ last_action' = "previous" => current_page' = current_page - 1
       /\ last_action' = "next" => current_page' = current_page + 1
       /\ last_action' \in {"previous", "next"} =>
             UNCHANGED <<articles_by_domain, articles_fetched, article_summary,
                         date_range, current_domain>>
      ]_vars

(***************************************************************************)
(* C19: once a fetch has completed, in every state (so also after later    *)
(* change-domain, page and request-curation actions) the summary lists     *)
(* every domain of the collection with the length of its stored sequence,  *)
(* and its total is the sum of the lengths of all stored sequences.        *)
(***************************************************************************)
C19_SummaryMatchesCollection ==
    articles_fetched =>
        /\ Len(article_summary) = Len(articles_by_domain.keys) + 1
        /\ article_summary[1][3] = StoredRecords(1)
        /\ \A k \in 1..Len(articles_by_domain.keys) :
              /\ article_summary[k + 1][2] = articles_by_domain.keys[k]
              /\ article_summary[k + 1][3] =
                    Len(articles_by_domain.data[articles_by_domain.keys[k]])

\* page 2 of Agriculture after a fetch that gave 19 Agriculture articles
\* from seven sources
C19_Witness ==
    /\ last_action = "next"
    /\ current_domain = "Agriculture"
    /\ Len(Stored("Agriculture")) = 19
    /\ \E k \in 2..Len(article_summary) :
          article_summary[k][2] = "Agriculture" /\ article_summary[k][3] = 19

====
